---- MODULE Spec2Model ----
(***************************************************************************)
(* Size-bounded key-value reflectors: JsonDataReflector (single source),   *)
(* JsonDataReflectorMultiSource and the virtual JsonDataReflector.         *)
(*                                                                         *)
(* JSON values are tagged pairs:  <<"str", s>>, <<"int", n>>,              *)
(* <<"null", 0>> (None) and <<"dict", d>>, where d is a Python dict kept   *)
(* as a sequence of <<key, value>> pairs in insertion order.  A dotted     *)
(* key path is kept as the sequence of its segments, which is what         *)
(* key_path.split('.') yields.                                             *)
(***************************************************************************)
EXTENDS Integers, Sequences, FiniteSets, TLC

VARIABLES mode, managed_data, sources, accessor, unloaded_keys, key_sizes,
          max_memory_size, last, set_value, nops, lock, threads,
          managed_data_store, data_sources

vars == <<mode, managed_data, sources, accessor, unloaded_keys, key_sizes,
          max_memory_size, last, set_value, nops, lock, threads,
          managed_data_store, data_sources>>

\* the collaborators of the virtual reflector
VirtualVars == <<managed_data_store, data_sources>>

(***************************************************************************)
(* Bounds of the exploration.                                              *)
(***************************************************************************)
MaxOps == 4

MaxMultiOps == 3

NumThreads == 2

(***************************************************************************)
(* Values.                                                                 *)
(***************************************************************************)
None == <<"null", 0>>

Sentinel == <<"str", "unloaded">>

StrV(s) == <<"str", s>>

IntV(n) == <<"int", n>>

DictV(d) == <<"dict", d>>

IsDict(v) == v[1] = "dict"

EmptyDict == << >>

(***************************************************************************)
(* Python dict operations on a sequence of <<key, value>> pairs.           *)
(***************************************************************************)
DictKeys(d) == [i \in 1..Len(d) |-> d[i][1]]

KeySet(d) == {d[i][1] : i \in 1..Len(d)}

DictHas(d, k) == k \in KeySet(d)

DictIndex(d, k) == CHOOSE i \in 1..Len(d) : d[i][1] = k

DictGet(d, k, dflt) == IF DictHas(d, k) THEN d[DictIndex(d, k)][2] ELSE dflt

DictPut(d, k, v) ==
    IF DictHas(d, k)
    THEN [d EXCEPT ![DictIndex(d, k)] = <<k, v>>]
    ELSE Append(d, <<k, v>>)

DictPop(d, k) == SelectSeq(d, LAMBDA e : e[1] # k)

RECURSIVE DictUpdate(_, _)
DictUpdate(d, other) ==
    IF other = << >> THEN d
    ELSE DictUpdate(DictPut(d, Head(other)[1], Head(other)[2]), Tail(other))

(***************************************************************************)
(* len(json.dumps(v).encode('utf-8')) for ASCII strings and non-negative   *)
(* integers, with json.dumps' default separators ", " and ": ".            *)
(***************************************************************************)
RECURSIVE Digits(_)
Digits(n) == IF n < 10 THEN 1 ELSE 1 + Digits(n \div 10)

RECURSIVE JsonSize(_)
RECURSIVE JsonItemsSize(_)
JsonItemsSize(d) ==
    IF d = << >> THEN 0
    ELSE Len(Head(d)[1]) + 2 + 2 + JsonSize(Head(d)[2])
         + (IF Len(d) > 1 THEN 2 ELSE 0) + JsonItemsSize(Tail(d))

JsonSize(v) ==
    CASE v[1] = "str"  -> Len(v[2]) + 2
      [] v[1] = "int"  -> Digits(v[2])
      [] v[1] = "null" -> 4
      [] v[1] = "dict" -> 2 + JsonItemsSize(v[2])

(***************************************************************************)
(* DataAccessor                                                            *)
(***************************************************************************)
RECURSIVE AccessorWalk(_, _, _)
AccessorWalk(d, keys, default) ==
    IF keys = << >> THEN d
    ELSE IF IsDict(d) /\ DictHas(d[2], Head(keys))
         THEN AccessorWalk(DictGet(d[2], Head(keys), None), Tail(keys), default)
         ELSE default

DataAccessorGet(data, key_path, default) ==
    AccessorWalk(DictV(data), key_path, default)

RECURSIVE DataAccessorSet(_, _, _)
\* a walk that puts a new mapping at every intermediate segment
DataAccessorSet_Fresh(data, key_path, value) ==
    IF Len(key_path) = 1
    THEN DictPut(data, key_path[1], value)
    ELSE DictPut(data, Head(key_path),
                 DictV(DataAccessorSet(EmptyDict, Tail(key_path), value)))

DataAccessorSet(data, key_path, value) ==
    IF Len(key_path) = 1
    THEN DictPut(data, key_path[1], value)
    ELSE LET k == Head(key_path)
             child == IF DictHas(data, k) /\ IsDict(DictGet(data, k, None))
                      THEN DictGet(data, k, None)[2]
                      ELSE EmptyDict
         IN  DictPut(data, k, DictV(DataAccessorSet(child, Tail(key_path), value)))

(***************************************************************************)
(* _parse_size: a budget string is kept as <<number, suffix>>; the three   *)
(* recognised suffixes are tried in the order of the code.                 *)
(***************************************************************************)
parse_size(size_str) ==
    CASE size_str[2] = "MB" -> size_str[1] * 1024 * 1024
      [] size_str[2] = "KB" -> size_str[1] * 1024
      [] size_str[2] = "B"  -> size_str[1]

large_key_threshold(max) == max \div 10

(***************************************************************************)
(* DataLoader / DataSaver of the single-source reflector.  Both are built  *)
(* over the managed dict itself, so they read and write the in-memory tree.*)
(***************************************************************************)
load_batch(data, keys) ==
    [i \in 1..Len(keys) |-> <<keys[i], DictGet(data, keys[i], None)>>]

save_batch(data, batch) == DictUpdate(data, batch)

(***************************************************************************)
(* Size tracking and eviction of the single-source reflector.              *)
(***************************************************************************)
RECURSIVE SumSizes(_)
SumSizes(ks) == IF ks = << >> THEN 0 ELSE Head(ks)[2] + SumSizes(Tail(ks))

current_memory_size(md, ks, unl) ==
    LET small_dict == SelectSeq(md, LAMBDA e : ~DictHas(ks, e[1]) /\ e[1] \notin unl)
    IN  SumSizes(ks) + (IF small_dict # << >> THEN JsonSize(DictV(small_dict)) ELSE 0)

\* the size update shared by get and set
\* ">=" in place of ">"
update_size_AtLeast(ks, key, size, threshold) ==
    IF size >= threshold THEN DictPut(ks, key, size) ELSE DictPop(ks, key)

update_size(ks, key, size, threshold) ==
    IF size > threshold THEN DictPut(ks, key, size) ELSE DictPop(ks, key)

\* a scan that keeps the later of two equal sizes (>= in place of >)
MaxCandidate_Last(candidates, ks) ==
    LET i == CHOOSE i \in 1..Len(candidates) :
                 /\ \A j \in 1..Len(candidates) :
                        DictGet(ks, candidates[j], 0) <= DictGet(ks, candidates[i], 0)
                 /\ \A j \in (i + 1)..Len(candidates) :
                        DictGet(ks, candidates[j], 0) < DictGet(ks, candidates[i], 0)
    IN  candidates[i]

\* max(candidates, key=...) returns the first maximal element
MaxCandidate(candidates, ks) ==
    LET i == CHOOSE i \in 1..Len(candidates) :
                 /\ \A j \in 1..Len(candidates) :
                        DictGet(ks, candidates[j], 0) <= DictGet(ks, candidates[i], 0)
                 /\ \A j \in 1..(i - 1) :
                        DictGet(ks, candidates[j], 0) < DictGet(ks, candidates[i], 0)
    IN  candidates[i]

\* a round that skips the large-key phase
PickVictim_Fifo(order, ks, unl) ==
    LET fifo == SelectSeq(order, LAMBDA k : k \notin unl)
    IN  IF fifo # << >> THEN Head(fifo) ELSE ""

\* the key picked by one round of the loop, or "" for k = None
PickVictim(order, ks, unl) ==
    LET candidates == SelectSeq(DictKeys(ks), LAMBDA k : k \notin unl)
        fifo       == SelectSeq(order, LAMBDA k : k \notin unl)
    IN  IF candidates # << >> THEN MaxCandidate(candidates, ks)
        ELSE IF fifo # << >> THEN Head(fifo) ELSE ""

\* an "if" in place of the "while": one round at most
unload_if_needed_Once(st, max) ==
    IF current_memory_size(st.md, st.ks, st.unl) > max
    THEN LET k == PickVictim(DictKeys(st.md), st.ks, st.unl)
         IN  IF k # ""
             THEN [md  |-> DictPut(st.md, k, Sentinel),
                   unl |-> st.unl \cup {k},
                   ks  |-> DictPop(st.ks, k),
                   ev  |-> Append(st.ev, k)]
             ELSE st
    ELSE st

RECURSIVE unload_if_needed(_, _)
unload_if_needed(st, max) ==
    IF current_memory_size(st.md, st.ks, st.unl) > max
    THEN LET k == PickVictim(DictKeys(st.md), st.ks, st.unl)
         IN  IF k # ""
             THEN unload_if_needed([md  |-> DictPut(st.md, k, Sentinel),
                                    unl |-> st.unl \cup {k},
                                    ks  |-> DictPop(st.ks, k),
                                    ev  |-> Append(st.ev, k)], max)
             ELSE st
    ELSE st

(***************************************************************************)
(* JsonDataReflector.get and JsonDataReflector.set as functions of the     *)
(* object's fields; the loader and the saver are handed the managed dict.  *)
(***************************************************************************)
get_result(md, unl, ks, max, key_path, default) ==
    LET value == DataAccessorGet(md, key_path, default)
    IN  IF value = Sentinel
        THEN LET key    == key_path[1]
                 loaded == load_batch(md, <<key>>)
                 md1    == DictPut(md, key, DictGet(loaded, key, default))
                 size   == JsonSize(DictGet(md1, key, None))
             IN  [ret |-> DataAccessorGet(md1, key_path, default),
                  md  |-> md1,
                  unl |-> unl \ {key},
                  ks  |-> update_size(ks, key, size, large_key_threshold(max))]
        ELSE [ret |-> value, md |-> md, unl |-> unl, ks |-> ks]

set_result(md, unl, ks, max, key_path, value) ==
    LET md1  == DataAccessorSet(md, key_path, value)
        key  == key_path[1]
        size == JsonSize(DictGet(md1, key, None))
        ks1  == update_size(ks, key, size, large_key_threshold(max))
        st   == unload_if_needed([md |-> md1, unl |-> unl, ks |-> ks1, ev |-> << >>], max)
        batch == << <<key, DictGet(st.md, key, None)>> >>
    IN  [md      |-> save_batch(st.md, batch),
         unl     |-> st.unl,
         ks      |-> st.ks,
         ev      |-> st.ev,
         ks0     |-> ks1,
         written |-> DictGet(md1, key, None),
         batch   |-> batch,
         before_save |-> st.md]

(***************************************************************************)
(* JsonDataReflectorMultiSource.  self.sources is a dict of DataSource     *)
(* objects, kept as a sequence of records in the dict's order.             *)
(***************************************************************************)
SourceIds(srcs) == [i \in 1..Len(srcs) |-> srcs[i].source_id]

HasSource(srcs, sid) == \E i \in 1..Len(srcs) : srcs[i].source_id = sid

SourceIndex(srcs, sid) == CHOOSE i \in 1..Len(srcs) : srcs[i].source_id = sid

\* DataSource.set
source_set(source, key, value) ==
    [source EXCEPT !.data = DictPut(source.data, key, value),
                   !.keys = source.keys \cup {key}]

\* DataSource.get
source_get(source, key, default) == DictGet(source.data, key, default)

\* indexes of the sources whose data holds the key, in iteration order
Holders(srcs, key) ==
    SelectSeq([i \in 1..Len(srcs) |-> i], LAMBDA i : DictHas(srcs[i].data, key))

RECURSIVE build_combined_data(_)
build_combined_data(srcs) ==
    IF srcs = << >> THEN EmptyDict
    ELSE DictUpdate(build_combined_data(SubSeq(srcs, 1, Len(srcs) - 1)),
                    srcs[Len(srcs)].data)

multi_load_batch(srcs, source_id, keys) ==
    IF ~HasSource(srcs, source_id)
    THEN [i \in 1..Len(keys) |-> <<keys[i], None>>]
    ELSE [i \in 1..Len(keys) |->
             <<keys[i], source_get(srcs[SourceIndex(srcs, source_id)], keys[i], None)>>]

RECURSIVE SourceSetAll(_, _)
SourceSetAll(source, batch) ==
    IF batch = << >> THEN source
    ELSE SourceSetAll(source_set(source, Head(batch)[1], Head(batch)[2]), Tail(batch))

multi_save_batch(srcs, source_id, batch) ==
    IF ~HasSource(srcs, source_id) THEN srcs
    ELSE [srcs EXCEPT ![SourceIndex(srcs, source_id)] = SourceSetAll(@, batch)]

multi_current_memory_size(srcs, ks, unl) ==
    current_memory_size(build_combined_data(srcs), ks, unl)

RECURSIVE multi_unload_if_needed(_, _)
multi_unload_if_needed(st, max) ==
    IF multi_current_memory_size(st.srcs, st.ks, st.unl) > max
    THEN LET k == PickVictim(DictKeys(build_combined_data(st.srcs)), st.ks, st.unl)
             owners == Holders(st.srcs, k)
         IN  IF k # "" /\ owners # << >>
             THEN multi_unload_if_needed(
                      [srcs |-> [st.srcs EXCEPT ![Head(owners)].data =
                                     DictPut(@, k, Sentinel)],
                       unl  |-> st.unl \cup {k},
                       ks   |-> DictPop(st.ks, k),
                       ev   |-> Append(st.ev, k)], max)
             ELSE st
    ELSE st

multi_get_result(srcs, acc, unl, ks, max, key_path, default) ==
    LET value == DataAccessorGet(acc, key_path, default)
        key   == key_path[1]
        owners == Holders(srcs, key)
    IN  IF value = Sentinel /\ owners # << >>
        THEN LET i      == Head(owners)
                 loaded == multi_load_batch(srcs, srcs[i].source_id, <<key>>)
                 srcs1  == [srcs EXCEPT ![i].data =
                                DictPut(@, key, DictGet(loaded, key, default))]
                 size   == JsonSize(DictGet(srcs1[i].data, key, None))
             IN  [ret  |-> DataAccessorGet(acc, key_path, default),
                  srcs |-> srcs1,
                  unl  |-> unl \ {key},
                  ks   |-> update_size(ks, key, size, large_key_threshold(max))]
        ELSE [ret |-> value, srcs |-> srcs, unl |-> unl, ks |-> ks]

\* the routing at the head of set; "" stands for source_id = None
target_source(srcs, key, source_id) ==
    IF source_id # "" /\ HasSource(srcs, source_id)
    THEN SourceIndex(srcs, source_id)
    ELSE IF Holders(srcs, key) # << >> THEN Head(Holders(srcs, key)) ELSE 1

multi_set_result(srcs, unl, ks, max, key_path, value, source_id) ==
    LET key   == key_path[1]
        t     == target_source(srcs, key, source_id)
        srcs1 == [srcs EXCEPT ![t] = source_set(@, key, value)]
        ks1   == update_size(ks, key, JsonSize(value), large_key_threshold(max))
        st    == multi_unload_if_needed([srcs |-> srcs1, unl |-> unl,
                                         ks |-> ks1, ev |-> << >>], max)
        srcs2 == multi_save_batch(st.srcs, srcs[t].source_id, << <<key, value>> >>)
    IN  [srcs   |-> srcs2,
         acc    |-> build_combined_data(srcs2),
         unl    |-> st.unl,
         ks     |-> st.ks,
         ev     |-> st.ev,
         ks0    |-> ks1,
         target |-> srcs[t].source_id,
         before_save |-> st.srcs]

(***************************************************************************)
(* Inputs of the exploration.                                              *)
(***************************************************************************)
Paths == {<<"a">>, <<"b">>, <<"c">>, <<"a", "x">>}

Small == IntV(1)

Large == StrV("0123456789abcdef")

Values == {Small, Large}

Defaults == {None, IntV(0), Sentinel}

Budgets == {<<40, "B">>}

MultiPaths == {<<"a">>, <<"b">>, <<"a", "x">>}

\* source_id arguments: "" is None, "zz" is not registered
SourceArgs == {"", "s1", "s2", "zz"}

NoOp == [op |-> "init", path |-> << >>, arg |-> None, src |-> "", tgt |-> "",
         ret |-> None, ev |-> << >>, ks0 |-> << >>]

(***************************************************************************)
(* self.lock and the callers' threads.  Every public method is one         *)
(* "with self.lock:" block; its body is the sequence of steps below.  A    *)
(* thread is idle, waiting at the with statement, or inside the body at    *)
(* step number pos.  Leaving the with block, by return or by an            *)
(* exception, releases the lock.                                           *)
(***************************************************************************)
Threads == 1..NumThreads

Free == 0

Idle == [pc |-> "idle", op |-> "", pos |-> 0, outcome |-> ""]

MethodsOf(m) ==
    IF m = "virtual" THEN {"get", "set", "unload", "load"} ELSE {"get", "set"}

BodyOf(m, op) ==
    CASE m = "single"  /\ op = "get"    -> <<"read", "reload", "size", "reread">>
      [] m = "single"  /\ op = "set"    -> <<"write", "size", "evict", "save">>
      [] m = "multi"   /\ op = "get"    -> <<"read", "reload", "size", "reread">>
      [] m = "multi"   /\ op = "set"    -> <<"route", "write", "size", "evict",
                                             "save", "rebuild">>
      [] m = "virtual" /\ op = "get"    -> <<"read", "scan">>
      [] m = "virtual" /\ op = "set"    -> <<"write", "save">>
      [] m = "virtual" /\ op = "unload" -> <<"remove">>
      [] m = "virtual" /\ op = "load"   -> <<"load">>

InBody(t) == threads[t].pc = "body"

\* a body entered without taking the lock
CanAcquire_NoLock(t) == TRUE

\* lock.acquire() inside "with self.lock": blocks until the lock is free
CanAcquire(t) == lock = Free

Call(t, op) ==
    /\ threads[t].pc = "idle"
    /\ op \in MethodsOf(mode)
    /\ threads' = [threads EXCEPT ![t] = [pc |-> "waiting", op |-> op, pos |-> 0,
                                          outcome |-> ""]]
    /\ UNCHANGED lock

Acquire(t) ==
    /\ threads[t].pc = "waiting"
    /\ CanAcquire(t)
    /\ lock' = t
    /\ threads' = [threads EXCEPT ![t].pc = "body", ![t].pos = 1]

Step(t) ==
    /\ InBody(t)
    /\ threads[t].pos < Len(BodyOf(mode, threads[t].op))
    /\ threads' = [threads EXCEPT ![t].pos = @ + 1]
    /\ UNCHANGED lock

\* return at the end of the body, or get's early return after its first read
Return(t) ==
    /\ InBody(t)
    /\ \/ threads[t].pos = Len(BodyOf(mode, threads[t].op))
       \/ threads[t].op = "get" /\ threads[t].pos = 1
    /\ lock' = Free
    /\ threads' = [threads EXCEPT ![t] = [Idle EXCEPT !.outcome = "returned"]]

\* an exception leaves the with block from any step
Raise(t) ==
    /\ InBody(t)
    /\ lock' = Free
    /\ threads' = [threads EXCEPT ![t] = [Idle EXCEPT !.outcome = "raised"]]

DataVars == <<mode, managed_data, sources, accessor, unloaded_keys, key_sizes,
              max_memory_size, last, set_value, nops, VirtualVars>>

(***************************************************************************)
(* JsonDataReflector.__init__                                              *)
(***************************************************************************)
InitialData == {EmptyDict, << <<"a", Small>>, <<"b", Small>> >>, << <<"a", Large>> >>}

InitSingle ==
    /\ mode = "single"
    /\ managed_data \in InitialData
    /\ \E b \in Budgets : max_memory_size = parse_size(b)
    /\ sources = << >>
    /\ accessor = EmptyDict
    /\ unloaded_keys = {}
    /\ key_sizes = EmptyDict
    /\ last = NoOp
    /\ set_value = EmptyDict
    /\ nops = 0
    /\ lock = Free
    /\ threads = [t \in Threads |-> Idle]
    /\ managed_data_store = EmptyDict
    /\ data_sources = << >>

Get(key_path, default) ==
    /\ mode = "single"
    /\ nops < MaxOps
    /\ LET r == get_result(managed_data, unloaded_keys, key_sizes,
                           max_memory_size, key_path, default)
       IN  /\ managed_data' = r.md
           /\ unloaded_keys' = r.unl
           /\ key_sizes' = r.ks
           /\ last' = [op |-> "get", path |-> key_path, arg |-> default,
                       src |-> "", tgt |-> "", ret |-> r.ret, ev |-> << >>,
                       ks0 |-> << >>]
    /\ nops' = nops + 1
    /\ UNCHANGED <<mode, sources, accessor, max_memory_size, set_value, lock, threads, VirtualVars>>

Set(key_path, value) ==
    /\ mode = "single"
    /\ nops < MaxOps
    /\ LET r == set_result(managed_data, unloaded_keys, key_sizes,
                           max_memory_size, key_path, value)
       IN  /\ managed_data' = r.md
           /\ unloaded_keys' = r.unl
           /\ key_sizes' = r.ks
           /\ last' = [op |-> "set", path |-> key_path, arg |-> value,
                       src |-> "", tgt |-> "", ret |-> None, ev |-> r.ev,
                       ks0 |-> r.ks0]
           /\ set_value' = DictPut(set_value, key_path[1], r.written)
    /\ nops' = nops + 1
    /\ UNCHANGED <<mode, sources, accessor, max_memory_size, lock, threads, VirtualVars>>

(***************************************************************************)
(* JsonDataReflectorMultiSource.__init__ over an object whose id is found  *)
(* in a source: the accessor starts over that object, not over the         *)
(* combined view.                                                          *)
(***************************************************************************)
ObjectId == "o"

ManagedObject == << <<"id", StrV(ObjectId)>> >>

InitialSources ==
    { << [source_id |-> "s1", keys |-> {ObjectId},
          data |-> << <<ObjectId, DictV(ManagedObject)>> >>],
         [source_id |-> "s2", keys |-> {}, data |-> EmptyDict] >>,
      << [source_id |-> "s1", keys |-> {ObjectId, "a"},
          data |-> << <<ObjectId, DictV(ManagedObject)>>, <<"a", Small>> >>],
         [source_id |-> "s2", keys |-> {"b"}, data |-> << <<"b", Small>> >>] >> }

InitMulti ==
    /\ mode = "multi"
    /\ sources \in InitialSources
    /\ accessor = DictGet(sources[Head(Holders(sources, ObjectId))].data,
                          ObjectId, None)[2]
    /\ managed_data = EmptyDict
    /\ \E b \in Budgets : max_memory_size = parse_size(b)
    /\ unloaded_keys = {}
    /\ key_sizes = EmptyDict
    /\ last = NoOp
    /\ set_value = EmptyDict
    /\ nops = 0
    /\ lock = Free
    /\ threads = [t \in Threads |-> Idle]
    /\ managed_data_store = EmptyDict
    /\ data_sources = << >>

MultiGet(key_path, default) ==
    /\ mode = "multi"
    /\ nops < MaxMultiOps
    /\ LET r == multi_get_result(sources, accessor, unloaded_keys, key_sizes,
                                 max_memory_size, key_path, default)
       IN  /\ sources' = r.srcs
           /\ unloaded_keys' = r.unl
           /\ key_sizes' = r.ks
           /\ last' = [op |-> "get", path |-> key_path, arg |-> default,
                       src |-> "", tgt |-> "", ret |-> r.ret, ev |-> << >>,
                       ks0 |-> << >>]
    /\ nops' = nops + 1
    /\ UNCHANGED <<mode, managed_data, accessor, max_memory_size, set_value,
                   lock, threads, VirtualVars>>

MultiSet(key_path, value, source_id) ==
    /\ mode = "multi"
    /\ nops < MaxMultiOps
    /\ LET r == multi_set_result(sources, unloaded_keys, key_sizes,
                                 max_memory_size, key_path, value, source_id)
       IN  /\ sources' = r.srcs
           /\ accessor' = r.acc
           /\ unloaded_keys' = r.unl
           /\ key_sizes' = r.ks
           /\ last' = [op |-> "set", path |-> key_path, arg |-> value,
                       src |-> source_id, tgt |-> r.target, ret |-> None,
                       ev |-> r.ev, ks0 |-> r.ks0]
           /\ set_value' = DictPut(set_value, key_path[1], value)
    /\ nops' = nops + 1
    /\ UNCHANGED <<mode, managed_data, max_memory_size, lock, threads, VirtualVars>>

Init == InitSingle \/ InitMulti

Next ==
    \/ \E p \in Paths, d \in Defaults : Get(p, d)
    \/ \E p \in Paths, v \in Values : Set(p, v)
    \/ \E p \in MultiPaths, d \in Defaults : MultiGet(p, d)
    \/ \E p \in MultiPaths, v \in Values, sid \in SourceArgs : MultiSet(p, v, sid)

Spec == Init /\ [][Next]_vars

(***************************************************************************)
(* A collaborator that raises.  DataSaver.save_batch is the last statement *)
(* of set and DataLoader.load_batch the first statement of the reload in   *)
(* get; neither method has a try block, so the exception leaves the with   *)
(* block and reaches the caller with whatever the method did before the    *)
(* call.  The exploration follows a behaviour up to its first failure.     *)
(***************************************************************************)
Raised == {"set_raised", "get_raised"}

SetSaveFails(key_path, value) ==
    /\ mode = "single"
    /\ nops < MaxOps
    /\ LET r == set_result(managed_data, unloaded_keys, key_sizes,
                           max_memory_size, key_path, value)
       IN  /\ managed_data' = r.before_save
           /\ unloaded_keys' = r.unl
           /\ key_sizes' = r.ks
           /\ last' = [op |-> "set_raised", path |-> key_path, arg |-> value,
                       src |-> "", tgt |-> "", ret |-> None, ev |-> r.ev,
                       ks0 |-> r.ks0]
    /\ nops' = nops + 1
    /\ UNCHANGED <<mode, sources, accessor, max_memory_size, set_value, lock, threads, VirtualVars>>

GetLoadFails(key_path, default) ==
    /\ mode = "single"
    /\ nops < MaxOps
    /\ DataAccessorGet(managed_data, key_path, default) = Sentinel
    /\ last' = [op |-> "get_raised", path |-> key_path, arg |-> default,
                src |-> "", tgt |-> "", ret |-> None, ev |-> << >>,
                ks0 |-> << >>]
    /\ nops' = nops + 1
    /\ UNCHANGED <<mode, managed_data, unloaded_keys, key_sizes, sources, accessor,
                   max_memory_size, set_value, lock, threads, VirtualVars>>

MultiSetSaveFails(key_path, value, source_id) ==
    /\ mode = "multi"
    /\ nops < MaxMultiOps
    /\ LET r == multi_set_result(sources, unloaded_keys, key_sizes,
                                 max_memory_size, key_path, value, source_id)
       IN  /\ sources' = r.before_save
           /\ unloaded_keys' = r.unl
           /\ key_sizes' = r.ks
           /\ last' = [op |-> "set_raised", path |-> key_path, arg |-> value,
                       src |-> source_id, tgt |-> r.target, ret |-> None,
                       ev |-> r.ev, ks0 |-> r.ks0]
    /\ nops' = nops + 1
    /\ UNCHANGED <<mode, managed_data, accessor, max_memory_size, set_value,
                   lock, threads, VirtualVars>>

MultiGetLoadFails(key_path, default) ==
    /\ mode = "multi"
    /\ nops < MaxMultiOps
    /\ DataAccessorGet(accessor, key_path, default) = Sentinel
    /\ Holders(sources, key_path[1]) # << >>
    /\ last' = [op |-> "get_raised", path |-> key_path, arg |-> default,
                src |-> "", tgt |-> "", ret |-> None, ev |-> << >>,
                ks0 |-> << >>]
    /\ nops' = nops + 1
    /\ UNCHANGED <<mode, managed_data, unloaded_keys, key_sizes, sources, accessor,
                   max_memory_size, set_value, lock, threads, VirtualVars>>

NextFailures ==
    \/ last.op \notin Raised /\ Next
    \/ \E p \in Paths, v \in Values : last.op \notin Raised /\ SetSaveFails(p, v)
    \/ \E p \in Paths, d \in Defaults : last.op \notin Raised /\ GetLoadFails(p, d)
    \/ \E p \in MultiPaths, v \in Values, sid \in SourceArgs :
           last.op \notin Raised /\ MultiSetSaveFails(p, v, sid)
    \/ \E p \in MultiPaths, d \in Defaults :
           last.op \notin Raised /\ MultiGetLoadFails(p, d)

SpecFailures == Init /\ [][NextFailures]_vars

(***************************************************************************)
(* Threads calling the public methods of one reflector instance.           *)
(***************************************************************************)
InitThreads ==
    /\ mode \in {"single", "multi", "virtual"}
    /\ managed_data = EmptyDict
    /\ sources = << >>
    /\ accessor = EmptyDict
    /\ \E b \in Budgets : max_memory_size = parse_size(b)
    /\ unloaded_keys = {}
    /\ key_sizes = EmptyDict
    /\ last = NoOp
    /\ set_value = EmptyDict
    /\ nops = 0
    /\ lock = Free
    /\ threads = [t \in Threads |-> Idle]
    /\ managed_data_store = EmptyDict
    /\ data_sources = << >>

NextThreads ==
    \/ \E t \in Threads, op \in {"get", "set", "unload", "load"} :
           Call(t, op) /\ UNCHANGED DataVars
    \/ \E t \in Threads : Acquire(t) /\ UNCHANGED DataVars
    \/ \E t \in Threads : Step(t) /\ UNCHANGED DataVars
    \/ \E t \in Threads : Return(t) /\ UNCHANGED DataVars
    \/ \E t \in Threads : Raise(t) /\ UNCHANGED DataVars

SpecThreads == InitThreads /\ [][NextThreads]_vars

(***************************************************************************)
(* What a get issued in the current state would return and leave behind.   *)
(***************************************************************************)
GetNow(key_path, default) ==
    IF mode = "single"
    THEN get_result(managed_data, unloaded_keys, key_sizes, max_memory_size,
                    key_path, default).ret
    ELSE multi_get_result(sources, accessor, unloaded_keys, key_sizes,
                          max_memory_size, key_path, default).ret

TopAfterGet(key, default) ==
    IF mode = "single"
    THEN DictGet(get_result(managed_data, unloaded_keys, key_sizes,
                            max_memory_size, <<key>>, default).md, key, None)
    ELSE DictGet(build_combined_data(
                     multi_get_result(sources, accessor, unloaded_keys, key_sizes,
                                      max_memory_size, <<key>>, default).srcs),
                 key, None)

Registry == IF mode = "single" THEN managed_data ELSE build_combined_data(sources)

TotalSize ==
    IF mode = "single"
    THEN current_memory_size(managed_data, key_sizes, unloaded_keys)
    ELSE multi_current_memory_size(sources, key_sizes, unloaded_keys)

Range(seq) == {seq[i] : i \in 1..Len(seq)}

(***************************************************************************)
(* C1: in the single-source reflector, set(p, v) immediately followed by   *)
(* get(p) returns v, whatever the default and whatever the set evicted.    *)
(***************************************************************************)
C1_SetThenGetReturnsValue ==
    (mode = "single" /\ last.op = "set")
        => \A d \in Defaults : GetNow(last.path, d) = last.arg

(***************************************************************************)
(* C2: when a set of key B evicts a previously set key A, the next get(A)  *)
(* returns the value last set for A and leaves A holding that value.       *)
(***************************************************************************)
C2_EvictedKeyReloadsLastValue ==
    \A k \in Range(last.ev) :
        (last.op = "set" /\ k # last.path[1] /\ DictHas(set_value, k))
            => \A d \in Defaults :
                   /\ GetNow(<<k>>, d) = DictGet(set_value, k, None)
                   /\ TopAfterGet(k, d) = DictGet(set_value, k, None)

(***************************************************************************)
(* C3: after every get or set no key is both in unloaded_keys and in       *)
(* key_sizes.                                                              *)
(***************************************************************************)
C3_UnloadedDisjointFromSizeTable ==
    unloaded_keys \cap KeySet(key_sizes) = {}

(***************************************************************************)
(* C4: when set returns, the total size is at most the budget unless no    *)
(* key holding a real (non-Sentinel) value is left.                        *)
(***************************************************************************)
NoEvictableKeyRemains ==
    \A k \in KeySet(Registry) : DictGet(Registry, k, None) = Sentinel

C4_WithinBudgetAfterSet ==
    last.op = "set" => (TotalSize <= max_memory_size \/ NoEvictableKeyRemains)

(***************************************************************************)
(* C5: a get whose top-level key is not in unloaded_keys changes neither   *)
(* key_sizes nor unloaded_keys.                                            *)
(***************************************************************************)
C5_GetOnResidentKeyIsPure ==
    [][(mode = "single" /\ last'.op = "get" /\ last'.path[1] \notin unloaded_keys)
          => (key_sizes' = key_sizes /\ unloaded_keys' = unloaded_keys)]_vars

(***************************************************************************)
(* The first round of the eviction loop run by the last set: the keys it   *)
(* could choose from in the large-key phase and those of maximal size.     *)
(***************************************************************************)
Unloaded0 == unloaded_keys \ Range(last.ev)

Candidates0 == SelectSeq(DictKeys(last.ks0), LAMBDA k : k \notin Unloaded0)

MaxKeys0 ==
    {k \in Range(Candidates0) :
        \A j \in Range(Candidates0) : DictGet(last.ks0, j, 0) <= DictGet(last.ks0, k, 0)}

FirstIn(order, keys) == Head(SelectSeq(order, LAMBDA k : k \in keys))

TieAtFirstRound ==
    /\ last.op = "set"
    /\ last.ev # << >>
    /\ Cardinality(MaxKeys0) >= 2

(***************************************************************************)
(* C6 as stated: among large keys of equal maximal size the engine evicts  *)
(* the one that comes first in the registry iteration order.               *)
(***************************************************************************)
C6_TieBrokenByRegistryOrder ==
    TieAtFirstRound => last.ev[1] = FirstIn(DictKeys(Registry), MaxKeys0)

(***************************************************************************)
(* C6 amended: among large keys of equal maximal size the engine evicts    *)
(* the one that comes first in the iteration order of the Size Table       *)
(* (key_sizes), i.e. the one whose current entry was inserted first.       *)
(***************************************************************************)
C6_TieBrokenBySizeTableOrder ==
    TieAtFirstRound => last.ev[1] = FirstIn(DictKeys(last.ks0), MaxKeys0)

C6_Witness ==
    /\ TieAtFirstRound
    /\ FirstIn(DictKeys(last.ks0), MaxKeys0) # FirstIn(DictKeys(Registry), MaxKeys0)
    /\ last.ev[1] = FirstIn(DictKeys(last.ks0), MaxKeys0)

(***************************************************************************)
(* C7: in the multi-source reflector a set with a dotted path k.rest       *)
(* read-modifies the value of k, so that get of the same path returns the  *)
(* value written.                                                          *)
(***************************************************************************)
C7_DottedSetThenGet ==
    (mode = "multi" /\ last.op = "set" /\ Len(last.path) > 1)
        => \A d \in Defaults : GetNow(last.path, d) = last.arg

(***************************************************************************)
(* C8: a multi-source set writes the key into the source named by          *)
(* source_id if registered, else the first source holding the key, else    *)
(* the first source; and get(key) then returns the value.                  *)
(***************************************************************************)
RoutedSource(srcs, key, source_id) ==
    IF source_id # "" /\ source_id \in Range(SourceIds(srcs))
    THEN source_id
    ELSE IF \E i \in 1..Len(srcs) : DictHas(srcs[i].data, key)
         THEN srcs[CHOOSE i \in 1..Len(srcs) :
                      /\ DictHas(srcs[i].data, key)
                      /\ \A j \in 1..(i - 1) : ~DictHas(srcs[j].data, key)].source_id
         ELSE srcs[1].source_id

\* the result of get(key) for the top-level key of the last operation
GetLastKeyNow(default) == GetNow(<<last.path[1]>>, default)

C8_RoutedSetThenGet ==
    [][(mode = "multi" /\ last'.op = "set")
          => LET key == last'.path[1]
                 sid == RoutedSource(sources, key, last'.src)
             IN  /\ last'.tgt = sid
                 /\ \A i \in 1..Len(sources) :
                        IF sources[i].source_id = sid
                        THEN DictGet(sources'[i].data, key, None) = last'.arg
                        ELSE DictHas(sources'[i].data, key)
                                 = DictHas(sources[i].data, key)
                 /\ \A d \in Defaults : GetLastKeyNow(d)' = last'.arg]_vars

(***************************************************************************)
(* C9: every top-level key is in the data of at most one source.           *)
(***************************************************************************)
C9_ExclusiveOwnership ==
    mode = "multi"
        => \A i, j \in 1..Len(sources) :
               i # j => KeySet(sources[i].data) \cap KeySet(sources[j].data) = {}

(***************************************************************************)
(* C10: at most one operation is inside its body at any time, so the steps *)
(* of one operation never interleave with those of another; the thread     *)
(* inside a body holds the lock, and the lock is free whenever no          *)
(* operation is inside its body, whether the last one returned or raised.  *)
(***************************************************************************)
C10_OperationsSerialized ==
    /\ Cardinality({t \in Threads : InBody(t)}) <= 1
    /\ \A t \in Threads : InBody(t) => lock = t
    /\ (\A t \in Threads : ~InBody(t)) => lock = Free

C10_Witness ==
    \E t, u \in Threads :
        /\ InBody(t) /\ threads[t].pos > 1
        /\ threads[u].pc = "waiting"
        /\ threads[u].outcome = ""

\* C11: when the batch saver raises during set or the batch loader raises
\* during get, the values, the Size Table and the Unloaded Set are the same
\* after the call as before it
C11_FailureLeavesStateUnchanged ==
    [][last'.op \in Raised =>
          /\ managed_data' = managed_data
          /\ sources' = sources
          /\ key_sizes' = key_sizes
          /\ unloaded_keys' = unloaded_keys]_vars

\* the path leads nowhere in the tree, whatever default the lookup is given
PathMissing(data, key_path) ==
    /\ DataAccessorGet(data, key_path, None) = None
    /\ DataAccessorGet(data, key_path, IntV(0)) = IntV(0)

\* the first segment is not an evicted key
FirstSegmentResident(key_path) ==
    /\ key_path[1] \notin unloaded_keys
    /\ DictGet(Registry, key_path[1], None) # Sentinel

\* C12: a get of a path that exists nowhere returns exactly the default it
\* was given, for every default, creates no key and changes no value
C12_MissingPathReturnsDefault ==
    [][\A p \in Paths :
          (/\ last'.op = "get"
           /\ last'.path = p
           /\ PathMissing(Registry, p)
           /\ FirstSegmentResident(p))
          => /\ last'.ret = last'.arg
             /\ managed_data' = managed_data
             /\ sources' = sources]_vars

(***************************************************************************)
(* Construction.  JsonDataReflectorMultiSource.__init__ looks the stated   *)
(* id up in the sources, or generates one and stores the object in a       *)
(* source; the virtual JsonDataReflector.__init__ does the same against    *)
(* managed_data_store, kept here as a dict from id to object.  new_id is   *)
(* what str(uuid.uuid4()) returns.                                         *)
(***************************************************************************)
multi_init_FirstSource(md, srcs, default_source_id, new_id) ==
    LET object_id == DictGet(md, "id", None)
    IN  IF object_id # None
        THEN LET owners == Holders(srcs, object_id[2])
             IN  IF owners # << >>
                 THEN [raised    |-> FALSE,
                       srcs      |-> srcs,
                       md        |-> DictGet(srcs[Head(owners)].data, object_id[2], None)[2],
                       object_id |-> object_id,
                       source_id |-> srcs[Head(owners)].source_id]
                 ELSE [raised |-> TRUE, srcs |-> srcs, md |-> md,
                       object_id |-> object_id, source_id |-> ""]
        ELSE LET md1 == DictPut(md, "id", StrV(new_id))
                 t   == 1
             IN  [raised    |-> FALSE,
                  srcs      |-> [srcs EXCEPT ![t].data = DictPut(@, new_id, DictV(md1))],
                  md        |-> md1,
                  object_id |-> StrV(new_id),
                  source_id |-> srcs[t].source_id]

multi_init(md, srcs, default_source_id, new_id) ==
    LET object_id == DictGet(md, "id", None)
    IN  IF object_id # None
        THEN LET owners == Holders(srcs, object_id[2])
             IN  IF owners # << >>
                 THEN [raised    |-> FALSE,
                       srcs      |-> srcs,
                       md        |-> DictGet(srcs[Head(owners)].data, object_id[2], None)[2],
                       object_id |-> object_id,
                       source_id |-> srcs[Head(owners)].source_id]
                 ELSE [raised |-> TRUE, srcs |-> srcs, md |-> md,
                       object_id |-> object_id, source_id |-> ""]
        ELSE LET md1 == DictPut(md, "id", StrV(new_id))
                 t   == IF default_source_id # "" /\ HasSource(srcs, default_source_id)
                        THEN SourceIndex(srcs, default_source_id)
                        ELSE 1
             IN  [raised    |-> FALSE,
                  srcs      |-> [srcs EXCEPT ![t].data = DictPut(@, new_id, DictV(md1))],
                  md        |-> md1,
                  object_id |-> StrV(new_id),
                  source_id |-> srcs[t].source_id]

store_exists(store, id) == DictHas(store, id)

store_save_object(store, id, obj) == DictPut(store, id, DictV(obj))

virtual_init(md, store, new_id) ==
    IF ~DictHas(md, "id")
    THEN LET md1 == DictPut(md, "id", StrV(new_id))
         IN  [raised |-> FALSE, md |-> md1,
              store |-> store_save_object(store, new_id, md1),
              object_id |-> StrV(new_id)]
    ELSE [raised |-> ~store_exists(store, DictGet(md, "id", None)[2]),
          md |-> md, store |-> store, object_id |-> DictGet(md, "id", None)]

ConstructorObjects ==
    {EmptyDict, << <<"a", Small>> >>, ManagedObject, << <<"id", StrV("p")>> >>}

ConstructorSources ==
    InitialSources \cup
    { << [source_id |-> "s1", keys |-> {}, data |-> EmptyDict],
         [source_id |-> "s2", keys |-> {}, data |-> EmptyDict] >>,
      << [source_id |-> "s1", keys |-> {"a"}, data |-> << <<"a", Small>> >>],
         [source_id |-> "s2", keys |-> {ObjectId},
          data |-> << <<ObjectId, DictV(ManagedObject)>> >>] >> }

ConstructorStores == {EmptyDict, << <<ObjectId, DictV(ManagedObject)>> >>}

NewIds == {"u1", "u2"}

\* the state in which the constructor is about to be called: managed_data is
\* its first argument and last.src its default_source_id
InitConstruct ==
    /\ mode \in {"multi", "virtual"}
    /\ managed_data \in ConstructorObjects
    /\ IF mode = "multi"
       THEN /\ sources \in ConstructorSources
            /\ managed_data_store = EmptyDict
            /\ \E sid \in SourceArgs : last = [NoOp EXCEPT !.op = "new", !.src = sid]
       ELSE /\ sources = << >>
            /\ managed_data_store \in ConstructorStores
            /\ last = [NoOp EXCEPT !.op = "new"]
    /\ data_sources = << >>
    /\ accessor = EmptyDict
    /\ \E b \in Budgets : max_memory_size = parse_size(b)
    /\ unloaded_keys = {}
    /\ key_sizes = EmptyDict
    /\ set_value = EmptyDict
    /\ nops = 0
    /\ lock = Free
    /\ threads = [t \in Threads |-> Idle]

MultiInit(new_id) ==
    /\ mode = "multi"
    /\ last.op = "new"
    /\ LET r == multi_init(managed_data, sources, last.src, new_id)
       IN  /\ sources' = r.srcs
           /\ managed_data' = r.md
           /\ accessor' = IF r.raised THEN accessor ELSE r.md
           /\ last' = [last EXCEPT !.op = IF r.raised THEN "init_raised"
                                                      ELSE "constructed",
                                   !.tgt = r.source_id,
                                   !.ret = r.object_id]
    /\ UNCHANGED <<mode, unloaded_keys, key_sizes, max_memory_size, set_value,
                   nops, lock, threads, VirtualVars>>

VirtualInit(new_id) ==
    /\ mode = "virtual"
    /\ last.op = "new"
    /\ LET r == virtual_init(managed_data, managed_data_store, new_id)
       IN  /\ managed_data' = r.md
           /\ managed_data_store' = r.store
           /\ last' = [last EXCEPT !.op = IF r.raised THEN "init_raised"
                                                      ELSE "constructed",
                                   !.ret = r.object_id]
    /\ UNCHANGED <<mode, sources, accessor, unloaded_keys, key_sizes,
                   max_memory_size, set_value, nops, lock, threads, data_sources>>

NextConstruct ==
    \/ \E id \in NewIds : MultiInit(id)
    \/ \E id \in NewIds : VirtualInit(id)

SpecConstruct == InitConstruct /\ [][NextConstruct]_vars

\* the object states an id (the constructor tests "is not None" / "in")
StatesId(md) ==
    IF mode = "multi" THEN DictGet(md, "id", None) # None ELSE DictHas(md, "id")

\* the stated id is known to a source, or to the object store
IdKnown(md) ==
    LET id == DictGet(md, "id", None)[2]
    IN  IF mode = "multi"
        THEN \E i \in 1..Len(sources) : DictHas(sources[i].data, id)
        ELSE DictHas(managed_data_store, id)

\* where an object without an id has to land
LandingSource(srcs, default_source_id) ==
    IF \E i \in 1..Len(srcs) : srcs[i].source_id = default_source_id
    THEN default_source_id
    ELSE srcs[1].source_id

\* C13: a constructor given an object whose stated id is unknown raises and
\* registers nothing; given an object without id it assigns a fresh id and
\* registers the object under it, in the default source when that is
\* registered and else in the first source (the virtual reflector registers
\* it in its object store)
C13_ConstructorRegistration ==
    [][last.op = "new" =>
         /\ (StatesId(managed_data) /\ ~IdKnown(managed_data)) =>
               /\ last'.op = "init_raised"
               /\ sources' = sources
               /\ managed_data_store' = managed_data_store
               /\ data_sources' = data_sources
         /\ ~StatesId(managed_data) =>
               LET id  == last'.ret[2]
                   obj == DictV(DictPut(managed_data, "id", last'.ret))
               IN  /\ last'.op = "constructed"
                   /\ managed_data' = obj[2]
                   /\ \A i \in 1..Len(sources) : ~DictHas(sources[i].data, id)
                   /\ ~DictHas(managed_data_store, id)
                   /\ IF mode = "multi"
                      THEN /\ last'.tgt = LandingSource(sources, last.src)
                           /\ \A i \in 1..Len(sources) :
                                 sources'[i] =
                                   IF sources[i].source_id = last'.tgt
                                   THEN [sources[i] EXCEPT
                                            !.data = Append(sources[i].data, <<id, obj>>)]
                                   ELSE sources[i]
                      ELSE /\ managed_data_store' =
                                 Append(managed_data_store, <<id, obj>>)
                           /\ sources' = sources]_vars

C13_Witness ==
    /\ mode = "multi"
    /\ last.op = "constructed"
    /\ last.src = "zz"
    /\ last.tgt = "s1"
    /\ last.ret \in {StrV(id) : id \in NewIds}
    /\ DictGet(sources[1].data, last.ret[2], None) = DictV(managed_data)
    /\ Len(sources[1].data) > 1

(***************************************************************************)
(* The virtual JsonDataReflector.  data_sources is the list handed to the  *)
(* constructor; a data source is kept as the list its objects() returns,   *)
(* add_object appends to it and save_object stores the object the caller   *)
(* has filled in.  An object is a record with managed_data_id and          *)
(* metadata, the latter with the list "key" and the dict "data", whose     *)
(* keys are whole key strings (kept as their segment sequences).           *)
(***************************************************************************)
MaxVirtualOps == 3

ds_objects(ds) == ds

ds_add_object(ds, obj) == Append(ds, obj)

ds_save_object(ds, i, obj) == [ds EXCEPT ![i] = obj]

\* the objects of this reflector that hold the key, as <<source, object>>
\* index pairs in the order of the two nested loops
RECURSIVE ObjectsHolding(_, _, _, _, _)
ObjectsHolding(dss, id, key, i, j) ==
    IF i > Len(dss) THEN << >>
    ELSE IF j > Len(ds_objects(dss[i])) THEN ObjectsHolding(dss, id, key, i + 1, 1)
    ELSE LET obj == ds_objects(dss[i])[j]
         IN  IF obj.managed_data_id = id /\ DictHas(obj.metadata.data, key)
             THEN << <<i, j>> >> \o ObjectsHolding(dss, id, key, i, j + 1)
             ELSE ObjectsHolding(dss, id, key, i, j + 1)

virtual_get_LastHolder(md, dss, id, key) ==
    LET value == DataAccessorGet(md, key, None)
        found == ObjectsHolding(dss, id, key, 1, 1)
    IN  IF value # None THEN [ret |-> value, md |-> md, from |-> "ram"]
        ELSE IF found # << >>
        THEN LET obj == ds_objects(dss[found[Len(found)][1]])[found[Len(found)][2]]
                 v   == DictGet(obj.metadata.data, key, None)
             IN  [ret |-> v, md |-> DataAccessorSet(md, key, v),
                  from |-> "data_source"]
        ELSE [ret |-> None, md |-> md, from |-> ""]

virtual_get(md, dss, id, key) ==
    LET value == DataAccessorGet(md, key, None)
        found == ObjectsHolding(dss, id, key, 1, 1)
    IN  IF value # None THEN [ret |-> value, md |-> md, from |-> "ram"]
        ELSE IF found # << >>
        THEN LET obj == ds_objects(dss[found[1][1]])[found[1][2]]
                 v   == DictGet(obj.metadata.data, key, None)
             IN  [ret |-> v, md |-> DataAccessorSet(md, key, v),
                  from |-> "data_source"]
        ELSE [ret |-> None, md |-> md, from |-> ""]

FirstObjectOf(ds, id) ==
    IF \E j \in 1..Len(ds) : ds[j].managed_data_id = id
    THEN CHOOSE j \in 1..Len(ds) :
            /\ ds[j].managed_data_id = id
            /\ \A h \in 1..(j - 1) : ds[h].managed_data_id # id
    ELSE 0

virtual_set(md, dss, id, key, value) ==
    LET ds0  == ds_objects(dss[1])
        j0   == FirstObjectOf(ds0, id)
        ds1  == IF j0 = 0
                THEN ds_add_object(dss[1],
                         [managed_data_id |-> id,
                          metadata |-> [key |-> << >>, data |-> EmptyDict]])
                ELSE dss[1]
        j    == IF j0 = 0 THEN Len(ds1) ELSE j0
        obj  == ds1[j]
        keys == IF \E h \in 1..Len(obj.metadata.key) : obj.metadata.key[h] = key
                THEN obj.metadata.key
                ELSE Append(obj.metadata.key, key)
        obj1 == [obj EXCEPT !.metadata =
                     [key |-> keys, data |-> DictPut(obj.metadata.data, key, value)]]
    IN  [md  |-> DataAccessorSet(md, key, value),
         dss |-> [dss EXCEPT ![1] = ds_save_object(ds1, j, obj1)]]

\* the body of the loop of unload, for the split key
RECURSIVE unload_key(_, _)
unload_key(d, keys) ==
    IF Len(keys) = 1
    THEN IF d # << >> /\ DictHas(d, keys[1]) THEN DictPop(d, keys[1]) ELSE d
    ELSE LET k == Head(keys)
         IN  IF DictHas(d, k) /\ IsDict(DictGet(d, k, None))
             THEN DictPut(d, k, DictV(unload_key(DictGet(d, k, None)[2], Tail(keys))))
             ELSE d

RECURSIVE virtual_unload(_, _)
virtual_unload(md, keys) ==
    IF keys = << >> THEN md
    ELSE virtual_unload(unload_key(md, Head(keys)), Tail(keys))

\* load of one key: every data source is scanned, and in each the first
\* object holding the key is written into the tree
RECURSIVE load_key(_, _, _, _, _)
load_key(md, dss, id, key, i) ==
    IF i > Len(dss) THEN md
    ELSE LET found == ObjectsHolding(<<dss[i]>>, id, key, 1, 1)
         IN  IF found # << >>
             THEN load_key(DataAccessorSet(md, key,
                               DictGet(ds_objects(dss[i])[found[1][2]].metadata.data,
                                       key, None)),
                           dss, id, key, i + 1)
             ELSE load_key(md, dss, id, key, i + 1)

RECURSIVE virtual_load(_, _, _, _)
virtual_load(md, dss, id, keys) ==
    IF keys = << >> THEN md
    ELSE IF DataAccessorGet(md, Head(keys), None) # None
         THEN virtual_load(md, dss, id, Tail(keys))
         ELSE virtual_load(load_key(md, dss, id, Head(keys), 1), dss, id, Tail(keys))

VirtualPaths == {<<"a">>, <<"b">>, <<"a", "x">>, <<"a", "y">>}

Nested == DictV(<< <<"x", Small>>, <<"y", Large>> >>)

VirtualValues == {Small, Large, Nested, None}

KeyLists == {<<p>> : p \in VirtualPaths} \cup {<< <<"a", "x">>, <<"b">> >>}

StoredObject(id, keys, data) ==
    [managed_data_id |-> id, metadata |-> [key |-> keys, data |-> data]]

InitialDataSources ==
    { << << >>, << >> >>,
      << << StoredObject("q", << <<"a">> >>, << << <<"a">>, Large >> >>),
            StoredObject(ObjectId, << <<"a">> >>, << << <<"a">>, Small >> >>) >>,
         << StoredObject(ObjectId, << <<"b">> >>, << << <<"b">>, Large >> >>) >> >> }

\* the state after the constructor has accepted an object with a known id
InitVirtual ==
    /\ mode = "virtual"
    /\ managed_data = ManagedObject
    /\ managed_data_store = << <<ObjectId, DictV(ManagedObject)>> >>
    /\ data_sources \in InitialDataSources
    /\ sources = << >>
    /\ accessor = EmptyDict
    /\ \E b \in Budgets : max_memory_size = parse_size(b)
    /\ unloaded_keys = {}
    /\ key_sizes = EmptyDict
    /\ last = NoOp
    /\ set_value = EmptyDict
    /\ nops = 0
    /\ lock = Free
    /\ threads = [t \in Threads |-> Idle]

\* last.src tells where a get found its value; for unload and load last.ev
\* is the list of keys handed in; set_value maps a key to the value the
\* latest set of that key wrote
VirtualGet(key) ==
    /\ mode = "virtual"
    /\ nops < MaxVirtualOps
    /\ LET r == virtual_get(managed_data, data_sources, ObjectId, key)
       IN  /\ managed_data' = r.md
           /\ last' = [NoOp EXCEPT !.op = "get", !.path = key, !.ret = r.ret,
                                   !.src = r.from]
    /\ nops' = nops + 1
    /\ UNCHANGED <<mode, sources, accessor, unloaded_keys, key_sizes,
                   max_memory_size, set_value, lock, threads, VirtualVars>>

VirtualSet(key, value) ==
    /\ mode = "virtual"
    /\ nops < MaxVirtualOps
    /\ LET r == virtual_set(managed_data, data_sources, ObjectId, key, value)
       IN  /\ managed_data' = r.md
           /\ data_sources' = r.dss
           /\ last' = [NoOp EXCEPT !.op = "set", !.path = key, !.arg = value]
           /\ set_value' = DictPut(set_value, key, value)
    /\ nops' = nops + 1
    /\ UNCHANGED <<mode, sources, accessor, unloaded_keys, key_sizes,
                   max_memory_size, lock, threads, managed_data_store>>

VirtualUnload(keys) ==
    /\ mode = "virtual"
    /\ nops < MaxVirtualOps
    /\ managed_data' = virtual_unload(managed_data, keys)
    /\ last' = [NoOp EXCEPT !.op = "unload", !.ev = keys]
    /\ nops' = nops + 1
    /\ UNCHANGED <<mode, sources, accessor, unloaded_keys, key_sizes,
                   max_memory_size, set_value, lock, threads, VirtualVars>>

VirtualLoad(keys) ==
    /\ mode = "virtual"
    /\ nops < MaxVirtualOps
    /\ managed_data' = virtual_load(managed_data, data_sources, ObjectId, keys)
    /\ last' = [NoOp EXCEPT !.op = "load", !.ev = keys]
    /\ nops' = nops + 1
    /\ UNCHANGED <<mode, sources, accessor, unloaded_keys, key_sizes,
                   max_memory_size, set_value, lock, threads, VirtualVars>>

NextVirtual ==
    \/ \E k \in VirtualPaths : VirtualGet(k)
    \/ \E k \in VirtualPaths, v \in VirtualValues : VirtualSet(k, v)
    \/ \E ks \in KeyLists : VirtualUnload(ks)
    \/ \E ks \in KeyLists : VirtualLoad(ks)

SpecVirtual == InitVirtual /\ [][NextVirtual]_vars

\* neither path is a prefix of the other
Unrelated(p, q) ==
    \E i \in 1..Len(p) : i <= Len(q) /\ p[i] # q[i]

C15_UnloadedIffSentinel ==
    \A k \in KeySet(Registry) \cup unloaded_keys :
        k \in unloaded_keys <=> DictGet(Registry, k, None) = Sentinel

\* the key is evicted: listed in the Unloaded Set and holding the Sentinel
Evicted(k) ==
    /\ k \in unloaded_keys
    /\ DictGet(Registry, k, None) = Sentinel

\* C16: a get of any path whose first segment is an evicted key, a dotted
\* sub-path included, reloads the key: afterwards the key is not in the
\* Unloaded Set and its value is not the Sentinel
C16_GetReloadsEvictedKey ==
    [][\A p \in Paths :
          (last'.op = "get" /\ last'.path = p /\ Evicted(p[1]))
          => /\ p[1] \notin unloaded_keys'
             /\ DictGet(Registry, p[1], None)' # Sentinel]_vars

(***************************************************************************)
(* The rounds of the eviction loop run by the last set, rebuilt from the   *)
(* keys it evicted (last.ev) and the Size Table it started with (last.ks0):*)
(* the Unloaded Set before round i and the large keys round i can choose   *)
(* from.                                                                   *)
(***************************************************************************)
UnloadedAt(i) == Unloaded0 \cup {last.ev[j] : j \in 1..(i - 1)}

CandidatesAt(i) == {k \in KeySet(last.ks0) : k \notin UnloadedAt(i)}

C17_FallbackRound ==
    /\ last.op = "set"
    /\ \E i \in 1..Len(last.ev) : CandidatesAt(i) = {}

\* C18: the eviction loop of a set ends; every round evicts one key that
\* was not in the Unloaded Set before it (a key of the registry, as is every
\* key of the Size Table), so a set evicts no more keys than the registry
\* holds, and the loop gives up while still over budget only when every
\* key of the registry is in the Unloaded Set
C18_EvictionLoopTerminates ==
    last.op = "set" =>
        /\ \A i \in 1..Len(last.ev) :
              /\ last.ev[i] \in KeySet(Registry)
              /\ last.ev[i] \notin UnloadedAt(i)
        /\ Len(last.ev) <= Cardinality(KeySet(Registry))
        /\ Range(last.ev) \subseteq unloaded_keys
        /\ KeySet(last.ks0) \subseteq KeySet(Registry)
        /\ TotalSize > max_memory_size => KeySet(Registry) \subseteq unloaded_keys

\* a set whose loop ran two rounds
C18_Witness ==
    /\ last.op = "set"
    /\ Len(last.ev) >= 2

\* a set whose loop gave up over budget
C18_StopsOverBudget ==
    /\ last.op = "set"
    /\ TotalSize > max_memory_size

\* the Size Table has the entry a value of this size must have: the size
\* itself when it is above a tenth of the budget, none otherwise
EntryIs(ks, k, size) ==
    IF size > max_memory_size \div 10
    THEN DictHas(ks, k) /\ DictGet(ks, k, 0) = size
    ELSE ~DictHas(ks, k)

\* after the size update of the last set (last.ks0 is the Size Table it
\* left, set_value the top-level value the set wrote)
SizedAfterSet ==
    last.op = "set" =>
        EntryIs(last.ks0, last.path[1],
                JsonSize(DictGet(set_value, last.path[1], None)))

AllEntriesLarge ==
    \A i \in 1..Len(key_sizes) : key_sizes[i][2] > max_memory_size \div 10

\* the get about to run finds the Sentinel and reloads the key
Reloads(key_path, default) ==
    IF mode = "single"
    THEN DataAccessorGet(managed_data, key_path, default) = Sentinel
    ELSE /\ DataAccessorGet(accessor, key_path, default) = Sentinel
         /\ Holders(sources, key_path[1]) # << >>

\* the top-level value of the key where a reload stores it
ReloadedValue(k) ==
    IF mode = "single"
    THEN DictGet(managed_data, k, None)
    ELSE DictGet(sources[Head(Holders(sources, k))].data, k, None)

ReloadedSize(k) == JsonSize(ReloadedValue(k))

SizedAfterReload(k) == EntryIs(key_sizes, k, ReloadedSize(k))

\* C19: after the size update of a set of k and after a reload of k, k has
\* a Size Table entry equal to the serialized size of its top-level value
\* when that size is above memory budget // 10 and no entry otherwise, and
\* every entry of every reachable state is above that threshold
C19_SizeTableHoldsLargeKeys ==
    [][/\ SizedAfterSet'
       /\ AllEntriesLarge'
       /\ \A p \in Paths, d \in Defaults :
             (last'.op = "get" /\ last'.path = p /\ last'.arg = d /\ Reloads(p, d))
             => SizedAfterReload(p[1])']_vars

\* a get that reloaded a key and entered it in the Size Table
C19_Witness ==
    /\ last.op = "get"
    /\ last.ret = Sentinel
    /\ last.arg # Sentinel
    /\ DictHas(key_sizes, last.path[1])
    /\ DictGet(key_sizes, last.path[1], 0) = ReloadedSize(last.path[1])

(***************************************************************************)
(* DataAccessor on its own: get and set applied to trees, paths and values *)
(* drawn from bounded sets.  managed_data is the accessor's self.data and  *)
(* set_value the tree as it was before the last call.                      *)
(***************************************************************************)
MaxAccessorOps == 2

Segments == {"a", "b", "x", "y"}

AccessorPaths ==
    {<<"a">>, <<"b">>, <<"a", "x">>, <<"a", "x", "y">>, <<"b", "x">>, <<"a", "b">>}

AccessorValues == {Small, None, DictV(<< <<"y", Large>> >>)}

AccessorTrees ==
    { EmptyDict,
      << <<"a", Small>>, <<"b", Large>> >>,
      << <<"a", DictV(<< <<"x", Small>>, <<"y", Large>> >>)>> >>,
      << <<"b", Small>>,
         <<"a", DictV(<< <<"y", Small>>,
                         <<"x", DictV(<< <<"x", Large>>, <<"y", Small>> >>)>> >>)>> >> }

InitAccessor ==
    /\ mode = "accessor"
    /\ managed_data \in AccessorTrees
    /\ set_value = managed_data
    /\ last = NoOp
    /\ nops = 0
    /\ sources = << >>
    /\ accessor = EmptyDict
    /\ \E b \in Budgets : max_memory_size = parse_size(b)
    /\ unloaded_keys = {}
    /\ key_sizes = EmptyDict
    /\ lock = Free
    /\ threads = [t \in Threads |-> Idle]
    /\ managed_data_store = EmptyDict
    /\ data_sources = << >>

AccessorSet(key_path, value) ==
    /\ mode = "accessor"
    /\ nops < MaxAccessorOps
    /\ managed_data' = DataAccessorSet(managed_data, key_path, value)
    /\ set_value' = managed_data
    /\ last' = [NoOp EXCEPT !.op = "accessor_set", !.path = key_path, !.arg = value]
    /\ nops' = nops + 1
    /\ UNCHANGED <<mode, sources, accessor, unloaded_keys, key_sizes,
                   max_memory_size, lock, threads, VirtualVars>>

AccessorGet(key_path, default) ==
    /\ mode = "accessor"
    /\ nops < MaxAccessorOps
    /\ set_value' = managed_data
    /\ last' = [NoOp EXCEPT !.op = "accessor_get", !.path = key_path,
                            !.arg = default,
                            !.ret = DataAccessorGet(managed_data, key_path, default)]
    /\ nops' = nops + 1
    /\ UNCHANGED <<mode, managed_data, sources, accessor, unloaded_keys, key_sizes,
                   max_memory_size, lock, threads, VirtualVars>>

NextAccessor ==
    \/ \E p \in AccessorPaths, v \in AccessorValues : AccessorSet(p, v)
    \/ \E p \in AccessorPaths, d \in Defaults : AccessorGet(p, d)

SpecAccessor == InitAccessor /\ [][NextAccessor]_vars

\* every path of up to three segments
ProbePaths ==
    {<<s>> : s \in Segments} \cup (Segments \X Segments)
        \cup (Segments \X Segments \X Segments)

Missing == StrV("<missing>")

\* the entry a path leads to, or Missing
EntryAt(tree, key_path) == DataAccessorGet(tree, key_path, Missing)

Prefix(key_path, n) == SubSeq(key_path, 1, n)

\* C20: DataAccessor.set(path, v) puts a fresh mapping wherever an
\* intermediate segment is missing or is not a mapping, writes v at the
\* last segment, so that DataAccessor.get(path) returns v, and leaves every
\* entry that is not on the path as it was
C20_AccessorSetThenGet ==
    last.op = "accessor_set" =>
        /\ \A d \in Defaults : DataAccessorGet(managed_data, last.path, d) = last.arg
        /\ \A n \in 1..(Len(last.path) - 1) :
              /\ IsDict(EntryAt(managed_data, Prefix(last.path, n)))
              /\ ~IsDict(EntryAt(set_value, Prefix(last.path, n)))
                 => KeySet(EntryAt(managed_data, Prefix(last.path, n))[2])
                       = {last.path[n + 1]}
        /\ \A q \in ProbePaths :
              Unrelated(q, last.path)
              => EntryAt(managed_data, q) = EntryAt(set_value, q)
        /\ \A n \in 1..(Len(last.path) - 1) :
              IsDict(EntryAt(set_value, Prefix(last.path, n)))
              => KeySet(EntryAt(set_value, Prefix(last.path, n))[2])
                    \subseteq KeySet(EntryAt(managed_data, Prefix(last.path, n))[2])

\* a set through a non-mapping intermediate, next to an entry it leaves alone
C20_Witness ==
    /\ last.op = "accessor_set"
    /\ Len(last.path) = 3
    /\ EntryAt(set_value, Prefix(last.path, 1)) # Missing
    /\ ~IsDict(EntryAt(set_value, Prefix(last.path, 1)))
    /\ EntryAt(managed_data, last.path) = last.arg
    /\ \E q \in ProbePaths :
          /\ Unrelated(q, last.path)
          /\ EntryAt(set_value, q) # Missing
          /\ EntryAt(managed_data, q) = EntryAt(set_value, q)

\* the single-key batch the set about to run hands to save_batch
BatchOfSet(key_path, value) ==
    set_result(managed_data, unloaded_keys, key_sizes, max_memory_size,
               key_path, value).batch

\* the top-level value that results from writing the value at the path
WrittenTopLevel(key_path, value) ==
    DictGet(DataAccessorSet(managed_data, key_path, value), key_path[1], None)

\* C21: the batch a set hands to the batch saver holds, for the key written,
\* the real top-level value that results from the write and never the
\* Sentinel, also when the eviction run of the same set evicts that key
C21_SavedBatchCarriesRealValue ==
    [][\A p \in Paths, v \in Values :
          (mode = "single" /\ last'.op = "set" /\ last'.path = p /\ last'.arg = v)
          => /\ BatchOfSet(p, v) = << <<p[1], WrittenTopLevel(p, v)>> >>
             /\ BatchOfSet(p, v)[1][2] # Sentinel]_vars

====
